---- MODULE Spec2Model ----
(***************************************************************************)
(* State-machine model of seg_and_patch (create_patches_fp.py): the batch  *)
(* loop over the selected slides of the ledger, its per-slide parameter    *)
(* resolution, stages, timing aggregation and checkpoint writes.           *)
(* Collaborators (WholeSlideImage, segment, visWSI, process_contours,      *)
(* StitchCoords, the MPP readers) are modelled by their possible outcomes. *)
(***************************************************************************)
EXTENDS Integers, Sequences, FiniteSets, TLC

(* ---------------------------------------------------------------------- *)
(* Bounds                                                                  *)
(* ---------------------------------------------------------------------- *)
\* number of slide files in the source directory (rows of the ledger)
MaxSlides == 2
\* number of invocations of seg_and_patch (first run plus re-runs)
MaxRuns == 2

Slides == 1..MaxSlides

(* ---------------------------------------------------------------------- *)
(* Program constants                                                       *)
(* ---------------------------------------------------------------------- *)
\* w * h > 1e8 guard
SizeGuardArea == 100000000
\* legacy reference tile 512 * 512
LegacyTileArea == 262144
\* default filter_params["a_t"]
DefaultAt == 100
\* default seg_level / vis_level: auto-select
AutoLevel == -1
\* the sentinel seg_time_elapsed / patch_time_elapsed / stitch_time_elapsed
NoTime == -1

(* ---------------------------------------------------------------------- *)
(* Inputs: small sets the environment draws from                           *)
(* ---------------------------------------------------------------------- *)
\* patch_spacing is None (0) or a spacing in 1/100 micron per pixel
NoSpacing == 0
Spacings == {NoSpacing, 50}
\* caller supplied patch_size and step_size
CallerPatchSize == 256
CallerStepSize == 128
\* native MPP values (1/100 micron per pixel) a provider may report: with
\* patch size 256 and spacing 50, 25 gives 512 and 1024 gives 12.5 (a tie)
MppValues == {25, 1024}
NoMpp == 0
\* durations a timed stage may take on slide id (time.time() differences)
Elapsed(id) == {id + 1}
\* (seg_level, vis_level) columns of the rows of a supplied process list
LevelChoices == {<<AutoLevel, AutoLevel>>, <<1, 0>>}
\* legacy absolute-area column "a" and a previously persisted a_t
LegacyArea == 110000
StoredAt == 7

\* slide handles WholeSlideImage may return
ProfileSingle ==
  [level_dim |-> << <<10000, 10000>> >>,
   level_downsamples |-> << <<1, 1>> >>,
   best_level |-> 0]
ProfileSingleBig ==
  [level_dim |-> << <<10001, 10000>> >>,
   level_downsamples |-> << <<1, 1>> >>,
   best_level |-> 0]
\* get_best_level_for_downsample(64) of the pyramid is level 1
ProfilePyramid ==
  [level_dim |-> << <<40000, 40000>>, <<10000, 10000>>, <<312, 312>> >>,
   level_downsamples |-> << <<1, 1>>, <<4, 4>>, <<128, 128>> >>,
   best_level |-> 1]
Profiles == {ProfileSingle, ProfileSingleBig, ProfilePyramid}
NoWSI == [level_dim |-> << >>, level_downsamples |-> << >>, best_level |-> 0]

VARIABLES
  cfg,            \* arguments of seg_and_patch: stage toggles, auto_skip, ...
  defaults,       \* seg_params / filter_params / vis_params passed in
  process_list,   \* the supplied ledger file, or not given
  run,            \* which invocation of seg_and_patch this is
  pc,             \* position in seg_and_patch
  i,              \* loop variable of "for i in range(total)"
  df,             \* the in-memory ledger
  process_stack,  \* indices of df selected at startup
  total,
  legacy_support,
  disk,           \* process_list_autogen.csv
  fs,             \* artifacts: coordinate files, mask images, stitch images
  WSI_object,
  cur,            \* current_seg/filter/vis params of the slide in flight
  patch_size, step_size, orig_patch_size,
  slide_mpp,
  elapsed,        \* seg/patch/stitch_time_elapsed of the slide in flight
  times,          \* seg_times, patch_times, stitch_times (sum over den)
  probe,          \* what the MPP providers answered for the slide in flight
  flushed,        \* how many selected rows were picked up at the last full write
  expect,         \* the rows left to pick up at the last full write of the previous run
  hist            \* history of this run, per ledger row (observation only)

vars == <<cfg, defaults, process_list, run, pc, i, df, process_stack, total,
          legacy_support, disk, fs, WSI_object, cur, patch_size, step_size,
          orig_patch_size, slide_mpp, elapsed, times, probe,
          flushed, expect, hist>>

(* ---------------------------------------------------------------------- *)
(* Helpers                                                                 *)
(* ---------------------------------------------------------------------- *)
\* a provider call that raises
Raises == -1

NoHist ==
  [picked |-> FALSE, h5_at_pickup |-> FALSE, calls |-> {}, outcome |-> "none",
   status_writes |-> 0, pre_status |-> "tbp", area |-> 0,
   geometry |-> <<0, 0, NoMpp>>, times |-> <<0, 0, 0>>,
   wsi |-> NoWSI, requested |-> <<AutoLevel, AutoLevel>>, used |-> <<AutoLevel, AutoLevel>>]

NoElapsed == [seg |-> NoTime, patch |-> NoTime, stitch |-> NoTime]

NoCur == [seg_level |-> AutoLevel, vis_level |-> AutoLevel, a_t |-> 0,
          keep_ids |-> "none", patch_keys |-> {}]

\* the seg_params / filter_params / vis_params / patch_params the caller
\* passes: the levels, a_t, keep_ids, and the keys of patch_params
DefaultParams ==
  [seg_level |-> AutoLevel, vis_level |-> AutoLevel, a_t |-> DefaultAt,
   keep_ids |-> "none", patch_keys |-> {"use_padding", "contour_fn"}]

\* keys current_patch_params.update(...) adds before patching is called
InjectedKeys == {"patch_level", "patch_size", "step_size", "save_path"}

\* keep_ids: "none" or "" gives the empty list, otherwise the parsed ids
ParseIds(str_ids) == IF str_ids = "none" \/ str_ids = "" THEN "[]" ELSE "ids"

\* what the caller's parameter dicts hold after the per-slide dicts (current)
\* were written to: in default-mode the per-slide dicts are .copy()s
SharedAliased(dflt, current, c) == IF c.use_default_params THEN current ELSE dflt
SharedAfter(dflt, current, c) == dflt

NoProbe == [tiffslide |-> NoMpp, openslide |-> NoMpp]

NoDisk == [exists |-> FALSE, complete |-> FALSE, legacy |-> FALSE, rows |-> << >>]

NotGiven == [given |-> FALSE, readable |-> TRUE, legacy |-> FALSE, rows |-> << >>]

NoExpect == [known |-> FALSE, stack |-> << >>, clean |-> FALSE]

NoTimes == [seg |-> 0, patch |-> 0, stitch |-> 0, den |-> 1]

\* a row of a supplied process list: a row not selected is one an earlier run
\* completed, which holds the levels that run resolved
Row(k, p, lv, leg) ==
  [slide_id |-> k, process |-> p,
   status |-> IF p = 1 THEN "tbp" ELSE "processed",
   seg_level |-> IF p = 0 /\ lv[1] < 0 THEN 0 ELSE lv[1],
   vis_level |-> IF p = 0 /\ lv[2] < 0 THEN 0 ELSE lv[2],
   a_t |-> StoredAt, a |-> IF leg THEN LegacyArea ELSE 0]

\* the process lists a caller may supply
ProcessLists ==
  {NotGiven} \cup
  { [given |-> TRUE, readable |-> TRUE, legacy |-> leg,
     rows |-> [k \in Slides |-> Row(k, p[k], lv, leg)]] :
      p \in [Slides -> {0, 1}], lv \in LevelChoices, leg \in BOOLEAN }

\* coordinate files found in patch_save_dir at the start: none, or the first
\* slide's
PreExisting ==
  {[k \in Slides |-> FALSE], [k \in Slides |-> k = 1]}

\* initialize_df(slides, ...): one row per slide file, selected, default parameters
InitializeFromSlides(d) ==
  [k \in Slides |->
     [slide_id |-> k, process |-> 1, status |-> "tbp",
      seg_level |-> d.seg_level, vis_level |-> d.vis_level,
      a_t |-> d.a_t, a |-> 0]]

\* initialize_df(df, ...): the supplied rows, no column of which is missing
InitializeFromLedger(rows) == rows

\* mask = df["process"] == 1; process_stack = df[mask]: indices in ledger order
SelectAll(d) == [k \in 1..Len(d) |-> k]
Selected(d) ==
  LET F[k \in 0..Len(d)] ==
        IF k = 0 THEN << >>
        ELSE IF d[k].process = 1 THEN Append(F[k - 1], k) ELSE F[k - 1]
  IN F[Len(d)]

\* df.assign(a_t = np.full(len(df), int(filter_params["a_t"])), ...)
LegacyAssign(d, dflt) == [k \in 1..Len(d) |-> [d[k] EXCEPT !.a_t = dflt.a_t]]

\* df.to_csv(path, index=False): the file is opened for writing (truncated),
\* then the whole table is written
Truncated(leg) == [exists |-> TRUE, complete |-> FALSE, legacy |-> leg, rows |-> << >>]
Written(d, leg) == [exists |-> TRUE, complete |-> TRUE, legacy |-> leg, rows |-> d]

\* line 164 runs at the top of every iteration
FlushEveryOther(k) == k % 2 = 0
FlushDue(k) == TRUE

\* df.loc[idx, "process"] = 0
StillSelected(d, idx) == d
PickedUp(d, idx) == [d EXCEPT ![idx].process = 0]

\* auto_skip and os.path.isfile(patch_save_dir/slide_id.h5)
NeverSkip(c, f, id) == FALSE
AutoSkipHit(c, f, id) == c.auto_skip /\ f.h5[id]

\* if save_mask: the mask step does not ask whether segmentation ran
RendersMaskIfSegmented(c) == c.save_mask /\ c.seg
RendersMask(c) == c.save_mask

\* df.loc[idx, "vis_level"] = ...; df.loc[idx, "seg_level"] = ...
PersistNothing(d, idx, c) == d
PersistLevels(d, idx, c) ==
  [d EXCEPT ![idx].vis_level = c.vis_level, ![idx].seg_level = c.seg_level]

\* w * h > 1e8
SizeGuardInclusive(w, h) == w * h >= SizeGuardArea
SizeGuardTripped(w, h) == w * h > SizeGuardArea

\* level auto-selection for a level requested as negative
ResolveLevel(level, wsi) ==
  IF level < 0
    THEN IF Len(wsi.level_dim) = 1 THEN 0 ELSE wsi.best_level
    ELSE level

\* Python sequence indexing seq[k]: negative k counts from the end
InRange(seq, k) == k >= -Len(seq) /\ k < Len(seq)
PyIndex(seq, k) == IF k < 0 THEN seq[Len(seq) + k + 1] ELSE seq[k + 1]

\* int(old_area * (scale[0] * scale[1]) / (512 * 512)): truncation
AdjustedAreaRounded(old_area, scale) ==
  LET n == old_area * (scale[1] * scale[2])
  IN IF 2 * (n % LegacyTileArea) >= LegacyTileArea
       THEN n \div LegacyTileArea + 1 ELSE n \div LegacyTileArea
AdjustedArea(old_area, scale) == (old_area * (scale[1] * scale[2])) \div LegacyTileArea

\* Python round() of the non-negative quotient p / q: half to even
Round(p, q) ==
  LET f == p \div q
      r == p % q
  IN IF 2 * r < q THEN f
     ELSE IF 2 * r > q THEN f + 1
     ELSE IF f % 2 = 0 THEN f ELSE f + 1

\* patch_size = round(orig_patch_size * patch_spacing / slide_mpp)
PatchSizeFromCurrent(orig, current, spacing, mpp) == Round(current * spacing, mpp)
ResolvedPatchSize(orig, current, spacing, mpp) == Round(orig * spacing, mpp)

\* the status a record has after its iteration ended with the given outcome
StatusMarkingFailures(outcome, old) ==
  CASE outcome = "already_exist" -> "already_exist"
    [] outcome = "failed_seg" -> "failed_seg"
    [] outcome = "processed" -> "processed"
    [] outcome = "seg_failed" -> "failed_seg"
    [] OTHER -> old
StatusAfter(outcome, old) ==
  CASE outcome = "already_exist" -> "already_exist"
    [] outcome = "failed_seg" -> "failed_seg"
    [] outcome = "processed" -> "processed"
    [] OTHER -> old

AssignsStatus(outcome) == outcome \in {"already_exist", "failed_seg", "processed"}

\* seg_times += seg_time_elapsed
AccumulateCompletedOnly(sum, t) == IF t < 0 THEN sum ELSE sum + t
Accumulate(sum, t) == sum + t

\* "continue" / end of the loop body: the next iteration starts; the locals
\* of the body are dead there (each is assigned before it is read again)
NextIteration ==
  /\ i' = i + 1
  /\ pc' = "loop"
  /\ WSI_object' = NoWSI
  /\ cur' = NoCur
  /\ slide_mpp' = NoMpp
  /\ elapsed' = NoElapsed

envv == <<cfg, defaults, process_list, run, expect>>
selv == <<process_stack, total, legacy_support, orig_patch_size>>

\* index of the slide in flight
Idx == process_stack[i + 1]

Called(h, k, stage) == [h EXCEPT ![k].calls = @ \cup {stage}]

\* the iteration of row k ends with the given outcome ("continue" or fall-through)
EndItem(d, k, outcome) == [d EXCEPT ![k].status = StatusAfter(outcome, @)]
EndHist(h, k, outcome) ==
  [h EXCEPT ![k].outcome = outcome,
            ![k].status_writes = @ + (IF AssignsStatus(outcome) THEN 1 ELSE 0)]

(* ---------------------------------------------------------------------- *)
(* Initial state: seg_and_patch is about to be called                      *)
(* ---------------------------------------------------------------------- *)
\* the arguments of seg_and_patch: save_mask as the entry point passes it
\* (line 477); patch_spacing is only read when patch is set
Configs ==
  { c \in [seg : BOOLEAN, save_mask : {TRUE}, patch : BOOLEAN, stitch : BOOLEAN,
            auto_skip : BOOLEAN, use_default_params : BOOLEAN,
            patch_spacing : Spacings,
            patch_size : {CallerPatchSize}, step_size : {CallerStepSize}] :
      c.patch \/ c.patch_spacing = NoSpacing }

Init ==
  /\ cfg \in Configs
  /\ defaults = DefaultParams
  /\ process_list \in ProcessLists
  /\ run = 1
  /\ pc = "start"
  /\ i = 0
  /\ df = << >>
  /\ process_stack = << >>
  /\ total = 0
  /\ legacy_support = FALSE
  /\ disk = NoDisk
  /\ fs \in [h5 : PreExisting,
             mask : {[k \in Slides |-> FALSE]},
             stitch : {[k \in Slides |-> FALSE]}]
  /\ WSI_object = NoWSI
  /\ cur = NoCur
  /\ patch_size = cfg.patch_size
  /\ step_size = cfg.step_size
  /\ orig_patch_size = 0
  /\ slide_mpp = NoMpp
  /\ elapsed = NoElapsed
  /\ times = NoTimes
  /\ probe = NoProbe
  /\ flushed = 0
  /\ expect = NoExpect
  /\ hist = << >>

(* ---------------------------------------------------------------------- *)
(* Startup: lines 126-161                                                  *)
(* ---------------------------------------------------------------------- *)
Startup ==
  /\ pc = "start"
  /\ IF process_list.given /\ ~process_list.readable
       THEN \* pd.read_csv raises on the truncated file
            /\ pc' = "aborted_startup"
            /\ UNCHANGED <<df, selv, times, hist>>
       ELSE LET df0 == IF process_list.given
                         THEN InitializeFromLedger(process_list.rows)
                         ELSE InitializeFromSlides(defaults)
                leg == process_list.given /\ process_list.legacy
                df1 == IF leg THEN LegacyAssign(df0, defaults) ELSE df0
            IN /\ process_stack' = Selected(df0)
               /\ total' = Len(Selected(df0))
               /\ legacy_support' = leg
               /\ df' = df1
               /\ times' = NoTimes
               /\ orig_patch_size' = patch_size
               /\ hist' = [k \in 1..Len(df1) |-> [NoHist EXCEPT !.pre_status = df1[k].status]]
               /\ pc' = "loop"
  /\ UNCHANGED <<envv, i, disk, fs, WSI_object, cur, patch_size, step_size,
                 slide_mpp, elapsed, probe, flushed>>

(* ---------------------------------------------------------------------- *)
(* Top of the loop: lines 163-176                                          *)
(* ---------------------------------------------------------------------- *)
\* df.to_csv opens the checkpoint file for writing
BeginCheckpoint ==
  /\ pc = "loop"
  /\ i < total
  /\ disk' = IF FlushDue(i) THEN Truncated(legacy_support) ELSE disk
  /\ pc' = "write"
  /\ UNCHANGED <<envv, selv, i, df, fs, WSI_object, cur, patch_size, step_size,
                 slide_mpp, elapsed, times, probe, flushed, hist>>

\* df.to_csv completes; the record is picked up; the auto-skip check
PickUp ==
  /\ pc = "write"
  /\ LET idx == Idx
         id == df[idx].slide_id
         d1 == PickedUp(df, idx)
         h1 == [hist EXCEPT ![idx].picked = TRUE, ![idx].h5_at_pickup = fs.h5[id]]
     IN /\ disk' = IF FlushDue(i) THEN Written(df, legacy_support) ELSE disk
        /\ flushed' = IF FlushDue(i) THEN i ELSE flushed
        /\ IF AutoSkipHit(cfg, fs, id)
             THEN /\ df' = EndItem(d1, idx, "already_exist")
                  /\ hist' = EndHist(h1, idx, "already_exist")
                  /\ NextIteration
             ELSE /\ df' = d1
                  /\ hist' = h1
                  /\ pc' = "open"
                  /\ UNCHANGED <<i, WSI_object, cur, slide_mpp, elapsed>>
  /\ probe' = NoProbe
  /\ UNCHANGED <<envv, selv, fs, patch_size, step_size, times>>

(* ---------------------------------------------------------------------- *)
(* WSI_object = WholeSlideImage(full_path): lines 178-187                  *)
(* ---------------------------------------------------------------------- *)
InitWSI ==
  /\ pc = "open"
  /\ \/ \* the constructor raises: continue
        /\ df' = EndItem(df, Idx, "open_failed")
        /\ hist' = EndHist(Called(hist, Idx, "open"), Idx, "open_failed")
        /\ NextIteration
     \/ \E w \in Profiles :
        /\ WSI_object' = w
        /\ hist' = [Called(hist, Idx, "open") EXCEPT ![Idx].wsi = w]
        /\ pc' = "resolve"
        /\ UNCHANGED <<df, i, cur, slide_mpp, elapsed>>
  /\ UNCHANGED <<envv, selv, disk, fs, patch_size, step_size, times, probe, flushed>>

(* ---------------------------------------------------------------------- *)
(* Parameter resolution, size guard, level persistence: lines 189-267      *)
(* ---------------------------------------------------------------------- *)
\* the result of lines 189-267 for row idx: where control goes, the ledger,
\* the per-slide parameters
Resolution(d, idx, wsi, c, dflt, leg) ==
  LET migrate == leg /\ ~c.use_default_params
      \* vis loop: legacy forces vis_level to auto
      d1 == IF migrate THEN [d EXCEPT ![idx].vis_level = AutoLevel] ELSE d
      \* filter loop: legacy recomputes a_t at the stored seg_level
      stored == d1[idx].seg_level
      lookup_ok == ~migrate \/ InRange(wsi.level_downsamples, stored)
      d2 == IF migrate /\ lookup_ok
              THEN [d1 EXCEPT ![idx].a_t =
                      AdjustedArea(d1[idx].a, PyIndex(wsi.level_downsamples, stored))]
              ELSE d1
      \* seg loop: legacy forces seg_level to auto
      d3 == IF migrate THEN [d2 EXCEPT ![idx].seg_level = AutoLevel] ELSE d2
      c0 == IF c.use_default_params
              THEN dflt
              ELSE [seg_level |-> d3[idx].seg_level, vis_level |-> d3[idx].vis_level,
                    a_t |-> d3[idx].a_t, keep_ids |-> "none",
                    patch_keys |-> dflt.patch_keys]
      c1 == [c0 EXCEPT !.vis_level = ResolveLevel(@, wsi),
                       !.seg_level = ResolveLevel(@, wsi),
                       !.keep_ids = ParseIds(@)]
      dim_ok == c1.seg_level < Len(wsi.level_dim)
      wh == wsi.level_dim[c1.seg_level + 1]
  IN IF ~lookup_ok
       THEN \* IndexError at level_downsamples[seg_level]
            [to |-> "aborted_resolve", df |-> d1, cur |-> NoCur, area |-> 0,
             requested |-> <<AutoLevel, AutoLevel>>]
     ELSE IF ~dim_ok
       THEN \* IndexError at level_dim[seg_level]
            [to |-> "aborted_resolve", df |-> d3, cur |-> c1, area |-> 0,
             requested |-> <<c0.seg_level, c0.vis_level>>]
     ELSE IF SizeGuardTripped(wh[1], wh[2])
       THEN [to |-> "loop", df |-> d3, cur |-> c1, area |-> wh[1] * wh[2],
             requested |-> <<c0.seg_level, c0.vis_level>>]
     ELSE [to |-> "segment",
           df |-> PersistLevels(d3, idx, c1),
           cur |-> c1, area |-> wh[1] * wh[2],
           requested |-> <<c0.seg_level, c0.vis_level>>]

ResolveParams ==
  /\ pc = "resolve"
  /\ LET r == Resolution(df, Idx, WSI_object, cfg, defaults, legacy_support)
         h1 == [hist EXCEPT ![Idx].area = r.area,
                            ![Idx].requested = r.requested,
                            ![Idx].used = <<r.cur.seg_level, r.cur.vis_level>>]
     IN IF r.to = "loop"
          THEN /\ df' = EndItem(r.df, Idx, "failed_seg")
               /\ hist' = EndHist(h1, Idx, "failed_seg")
               /\ NextIteration
          ELSE /\ df' = r.df
               /\ cur' = r.cur
               /\ pc' = r.to
               /\ hist' = h1
               /\ UNCHANGED <<i, WSI_object, slide_mpp, elapsed>>
  /\ defaults' = SharedAfter(defaults,
                  Resolution(df, Idx, WSI_object, cfg, defaults, legacy_support).cur, cfg)
  /\ UNCHANGED <<cfg, process_list, run, expect, selv, disk, fs, patch_size, step_size,
                 times, probe, flushed>>

(* ---------------------------------------------------------------------- *)
(* Segmentation: lines 269-277                                             *)
(* ---------------------------------------------------------------------- *)
Segment ==
  /\ pc = "segment"
  /\ IF cfg.seg
       THEN \/ \E t \in Elapsed(df[Idx].slide_id) :
               /\ elapsed' = [elapsed EXCEPT !.seg = t]
               /\ hist' = Called(hist, Idx, "segment")
               /\ pc' = "mask"
               /\ UNCHANGED <<df, i, WSI_object, cur, slide_mpp>>
            \/ \* segment raises: continue
               /\ df' = EndItem(df, Idx, "seg_failed")
               /\ hist' = EndHist(Called(hist, Idx, "segment"), Idx, "seg_failed")
               /\ NextIteration
       ELSE /\ elapsed' = [elapsed EXCEPT !.seg = NoTime]
            /\ pc' = "mask"
            /\ UNCHANGED <<df, i, hist, WSI_object, cur, slide_mpp>>
  /\ UNCHANGED <<envv, selv, disk, fs, patch_size, step_size, times, probe, flushed>>

(* ---------------------------------------------------------------------- *)
(* Mask rendering: lines 279-282                                           *)
(* ---------------------------------------------------------------------- *)
SaveMask ==
  /\ pc = "mask"
  /\ IF RendersMask(cfg)
       THEN \/ /\ fs' = [fs EXCEPT !.mask[df[Idx].slide_id] = TRUE]
               /\ pc' = "patch"
            \/ \* visWSI or mask.save raises: nothing catches it
               /\ pc' = "aborted_mask"
               /\ UNCHANGED fs
       ELSE /\ pc' = "patch"
            /\ UNCHANGED fs
  /\ hist' = IF RendersMask(cfg) THEN Called(hist, Idx, "mask") ELSE hist
  /\ UNCHANGED <<envv, selv, i, df, disk, WSI_object, cur, patch_size, step_size,
                 slide_mpp, elapsed, times, probe, flushed>>

(* ---------------------------------------------------------------------- *)
(* Patching with its geometry: lines 284-342                               *)
(* ---------------------------------------------------------------------- *)
\* what a provider may answer: a value, None, or an exception
ProviderAnswers == MppValues \cup {NoMpp, Raises}

\* slide_mpp after both lookups, given that TiffSlide answered t without
\* raising: OpenSlide is asked only if t is None, and its exception is caught
AssumedMpp(t, o) ==
  IF t # NoMpp THEN t ELSE IF o \in {Raises, NoMpp} THEN 25 ELSE o
LookedUpMpp(t, o) ==
  IF t # NoMpp THEN t ELSE IF o = Raises THEN NoMpp ELSE o

\* patching(WSI_object, patch_size = ps, step_size = ss, ...) is called;
\* m is the native MPP the geometry was derived from, if any
CallPatching(ps, ss, m) ==
  /\ cur' = [cur EXCEPT !.patch_keys = @ \cup InjectedKeys]
  /\ defaults' = SharedAfter(defaults, [cur EXCEPT !.patch_keys = @ \cup InjectedKeys], cfg)
  /\ hist' = [Called(IF cfg.patch_spacing # NoSpacing
                       THEN Called(hist, Idx, "mpp") ELSE hist, Idx, "patch")
                EXCEPT ![Idx].geometry = <<ps, ss, m>>]
  /\ \/ \E t \in Elapsed(df[Idx].slide_id), made \in BOOLEAN :
        \* process_contours returns; the coordinate file exists if it found patches
        /\ elapsed' = [elapsed EXCEPT !.patch = t]
        /\ fs' = [fs EXCEPT !.h5[df[Idx].slide_id] = @ \/ made]
        /\ pc' = "stitch"
     \/ \* process_contours raises: nothing catches it
        /\ elapsed' = [elapsed EXCEPT !.patch = NoTime]
        /\ pc' = "aborted_patch"
        /\ UNCHANGED fs
  /\ UNCHANGED <<df, i, WSI_object>>

\* "continue" out of the MPP lookup
SkipForMpp(outcome) ==
  /\ df' = EndItem(df, Idx, outcome)
  /\ hist' = EndHist(Called(hist, Idx, "mpp"), Idx, outcome)
  /\ NextIteration
  /\ UNCHANGED <<defaults, fs, patch_size, step_size>>

Patching ==
  /\ pc = "patch"
  /\ IF ~cfg.patch
       THEN /\ elapsed' = [elapsed EXCEPT !.patch = NoTime]
            /\ pc' = "stitch"
            /\ UNCHANGED <<defaults, df, i, hist, fs, patch_size, step_size,
                           slide_mpp, probe, WSI_object, cur>>
     ELSE IF cfg.patch_spacing = NoSpacing
       THEN /\ CallPatching(patch_size, step_size, NoMpp)
            /\ UNCHANGED <<patch_size, step_size, slide_mpp, probe>>
     ELSE \E t \in ProviderAnswers :
          \E o \in IF t \in MppValues THEN {NoMpp} ELSE ProviderAnswers :
            /\ probe' = [tiffslide |-> t, openslide |-> o]
            /\ IF t = Raises
                 THEN \* _get_mpp_tiffslide raises: continue
                      SkipForMpp("mpp_failed")
                 ELSE LET m == LookedUpMpp(t, o)
                      IN IF m = NoMpp
                           THEN SkipForMpp("no_mpp")
                           ELSE LET ps == ResolvedPatchSize(orig_patch_size,
                                            patch_size, cfg.patch_spacing, m)
                                IN /\ slide_mpp' = m
                                   /\ patch_size' = ps
                                   /\ step_size' = ps
                                   /\ CallPatching(ps, ps, m)
  /\ UNCHANGED <<cfg, process_list, run, expect, selv, disk, times, flushed>>

(* ---------------------------------------------------------------------- *)
(* Stitching: lines 344-352                                                *)
(* ---------------------------------------------------------------------- *)
Stitching ==
  /\ pc = "stitch"
  /\ IF cfg.stitch /\ fs.h5[df[Idx].slide_id]
       THEN /\ hist' = Called(hist, Idx, "stitch")
            /\ \/ \E t \in Elapsed(df[Idx].slide_id) :
                  /\ elapsed' = [elapsed EXCEPT !.stitch = t]
                  /\ fs' = [fs EXCEPT !.stitch[df[Idx].slide_id] = TRUE]
                  /\ pc' = "finish"
               \/ \* StitchCoords or heatmap.save raises: nothing catches it
                  /\ elapsed' = [elapsed EXCEPT !.stitch = NoTime]
                  /\ pc' = "aborted_stitch"
                  /\ UNCHANGED fs
       ELSE /\ elapsed' = [elapsed EXCEPT !.stitch = NoTime]
            /\ pc' = "finish"
            /\ UNCHANGED <<hist, fs>>
  /\ UNCHANGED <<envv, selv, i, df, disk, WSI_object, cur, patch_size, step_size,
                 slide_mpp, times, probe, flushed>>

(* ---------------------------------------------------------------------- *)
(* End of the iteration: lines 354-361                                     *)
(* ---------------------------------------------------------------------- *)
FinishItem ==
  /\ pc = "finish"
  /\ df' = EndItem(df, Idx, "processed")
  /\ times' = [times EXCEPT !.seg = Accumulate(@, elapsed.seg),
                            !.patch = Accumulate(@, elapsed.patch),
                            !.stitch = Accumulate(@, elapsed.stitch)]
  /\ hist' = [EndHist(hist, Idx, "processed") EXCEPT
                ![Idx].times = <<elapsed.seg, elapsed.patch, elapsed.stitch>>]
  /\ NextIteration
  /\ UNCHANGED <<envv, selv, disk, fs, patch_size, step_size, probe, flushed>>

(* ---------------------------------------------------------------------- *)
(* After the loop: lines 363-372                                           *)
(* ---------------------------------------------------------------------- *)
\* seg_times /= total, ...; then df.to_csv opens the checkpoint file
Averages ==
  /\ pc = "loop"
  /\ ~(i < total)
  /\ IF total = 0
       THEN \* ZeroDivisionError: float division by zero
            /\ pc' = "aborted_averages"
            /\ UNCHANGED <<times, disk>>
       ELSE /\ times' = [times EXCEPT !.den = total]
            /\ disk' = Truncated(legacy_support)
            /\ pc' = "final_write"
  /\ UNCHANGED <<envv, selv, i, df, fs, WSI_object, cur, patch_size, step_size,
                 slide_mpp, elapsed, probe, flushed, hist>>

\* df.to_csv completes; the means are printed and returned
FinalCheckpoint ==
  /\ pc = "final_write"
  /\ disk' = Written(df, legacy_support)
  /\ flushed' = total
  /\ pc' = "done"
  /\ UNCHANGED <<envv, selv, i, df, fs, WSI_object, cur, patch_size, step_size,
                 slide_mpp, elapsed, times, probe, hist>>

(* ---------------------------------------------------------------------- *)
(* The environment: the process is killed; seg_and_patch is run again      *)
(* ---------------------------------------------------------------------- *)
Aborted == {"aborted_startup", "aborted_resolve", "aborted_mask", "aborted_patch",
            "aborted_stitch", "aborted_averages"}

Running == {"loop", "write", "open", "resolve", "segment", "mask", "patch",
            "stitch", "finish", "final_write"}

\* so far in this run no slide was skipped, guarded or failed, no coordinate
\* file was there before its slide was picked up, and patching left one
NothingFailed ==
  \A k \in 1..Len(hist) :
    /\ hist[k].outcome \in {"none", "processed"}
    /\ ~hist[k].h5_at_pickup
    /\ ~hist[k].picked => ~fs.h5[df[k].slide_id]
    /\ "patch" \in hist[k].calls => fs.h5[df[k].slide_id]

\* what the checkpoint file, if completely written, leaves to pick up
LeftAtLastFlush ==
  IF disk.complete
    THEN [known |-> TRUE, stack |-> SubSeq(process_stack, flushed + 1, total),
          clean |-> NothingFailed]
    ELSE [NoExpect EXCEPT !.clean = NothingFailed]

\* a process of seg_and_patch that has not started: nothing in memory
FreshProcess ==
  /\ pc' = "start"
  /\ i' = 0
  /\ df' = << >>
  /\ process_stack' = << >>
  /\ total' = 0
  /\ legacy_support' = FALSE
  /\ WSI_object' = NoWSI
  /\ cur' = NoCur
  /\ patch_size' = cfg.patch_size
  /\ step_size' = cfg.step_size
  /\ orig_patch_size' = 0
  /\ slide_mpp' = NoMpp
  /\ elapsed' = NoElapsed
  /\ times' = NoTimes
  /\ probe' = NoProbe
  /\ flushed' = 0
  /\ hist' = << >>

\* the process is killed: its memory is gone, the files stay
Kill ==
  /\ pc \in Running
  /\ pc' = "killed"
  /\ expect' = LeftAtLastFlush
  /\ i' = 0
  /\ df' = << >>
  /\ process_stack' = << >>
  /\ total' = 0
  /\ legacy_support' = FALSE
  /\ WSI_object' = NoWSI
  /\ cur' = NoCur
  /\ patch_size' = cfg.patch_size
  /\ step_size' = cfg.step_size
  /\ orig_patch_size' = 0
  /\ slide_mpp' = NoMpp
  /\ elapsed' = NoElapsed
  /\ times' = NoTimes
  /\ probe' = NoProbe
  /\ flushed' = 0
  /\ hist' = << >>
  /\ UNCHANGED <<cfg, defaults, process_list, run, disk, fs>>

\* the same arguments, with the checkpoint file as process_list
Resume ==
  /\ pc \in {"killed", "done"} \cup Aborted
  /\ run < MaxRuns
  /\ disk.exists
  /\ run' = run + 1
  /\ process_list' = [given |-> TRUE, readable |-> disk.complete,
                      legacy |-> disk.legacy, rows |-> disk.rows]
  /\ expect' = IF pc = "killed" THEN expect ELSE LeftAtLastFlush
  /\ FreshProcess
  /\ UNCHANGED <<cfg, defaults, disk, fs>>

\* the same command line is run again after an interruption
Rerun ==
  /\ pc = "killed"
  /\ run < MaxRuns
  /\ run' = run + 1
  /\ FreshProcess
  /\ UNCHANGED <<cfg, defaults, process_list, disk, fs, expect>>

\* one invocation of seg_and_patch
Next ==
  \/ Startup
  \/ BeginCheckpoint
  \/ PickUp
  \/ InitWSI
  \/ ResolveParams
  \/ Segment
  \/ SaveMask
  \/ Patching
  \/ Stitching
  \/ FinishItem
  \/ Averages
  \/ FinalCheckpoint

Spec == Init /\ [][Next]_vars

\* invocations as the script's entry point makes them (use_default_params is
\* fixed there, line 476, and patch_spacing is always given, line 401): a first
\* run over the source directory, which may be killed and re-run from the
\* checkpoint
MainConfigs ==
  { c \in Configs : ~c.use_default_params
                    /\ (c.patch => c.patch_spacing # NoSpacing) }

InitResume == Init /\ cfg \in MainConfigs /\ process_list = NotGiven

NextResume == Next \/ Kill \/ Resume

SpecResume == InitResume /\ [][NextResume]_vars

\* the entry point's invocation, interrupted and run again with the same
\* arguments
NextRerun == Next \/ Kill \/ Rerun

SpecRerun == InitResume /\ [][NextRerun]_vars

(* ---------------------------------------------------------------------- *)
(* Properties                                                              *)
(* ---------------------------------------------------------------------- *)
Rows == 1..Len(hist)

InItem == {"open", "resolve", "segment", "mask", "patch", "stitch", "finish"}

\* C1: a failure of a per-slide stage (open, segmentation, mask rendering,
\* patching, stitching) never aborts the run: the run is never found
\* terminated by an exception of mask rendering, patching or stitching.
C1_StageFailureIsolated ==
  pc \notin {"aborted_mask", "aborted_patch", "aborted_stitch"}

\* C2: with auto_skip, a slide whose coordinate file existed when it was
\* picked up has status already_exist and no stage (open, segmentation, mask
\* rendering, MPP lookup, patching, stitching) was executed for it in this run.
C2_AutoSkipNoStage ==
  \A k \in Rows :
    (hist[k].picked /\ cfg.auto_skip /\ hist[k].h5_at_pickup)
      => /\ df[k].status = "already_exist"
         /\ hist[k].calls = {}
         /\ df[k].process = 0

C2_Witness ==
  /\ pc = "done"
  /\ \E k \in Rows : hist[k].picked /\ cfg.auto_skip /\ hist[k].h5_at_pickup
  /\ \E k \in Rows : hist[k].outcome = "processed"

\* C3: whenever work on a picked-up item is in progress, the checkpoint file
\* is a complete ledger equal to the in-memory ledger in every row but the
\* one in flight, so every item picked up before it is stored with
\* process = 0 and the status its iteration left, whatever its exit path.
C3_FlushedBeforeNextItem ==
  pc \in InItem =>
    /\ disk.exists /\ disk.complete
    /\ Len(disk.rows) = Len(df)
    /\ \A k \in 1..Len(df) : k # Idx => disk.rows[k] = df[k]
    /\ disk.rows[Idx].process = 1
    /\ \A j \in 1..i :
         LET k == process_stack[j]
         IN /\ hist[k].outcome # "none"
            /\ disk.rows[k].process = 0
            /\ disk.rows[k].status = df[k].status

C3_Witness ==
  /\ pc = "open"
  /\ i = 1
  /\ hist[process_stack[1]].outcome = "seg_failed"
  /\ disk.rows[process_stack[1]].process = 0

\* C4: at every point where the run can be killed, the checkpoint file, if
\* there is one, is a complete ledger and shows every item whose iteration
\* has ended with its process flag 0 and its status.
C4_CrashConsistentLedger ==
  (pc \in Running /\ disk.exists) =>
    /\ disk.complete
    /\ \A k \in Rows :
         hist[k].outcome # "none" =>
           /\ disk.rows[k].process = 0
           /\ disk.rows[k].status = df[k].status

\* C5: a re-run given the checkpoint file selects, in ledger order, exactly
\* the rows the file shows with process = 1, which are the rows the previous
\* run had not picked up at its last complete write, and never picks up a row
\* the file shows with process = 0.
C5_ResumeAfterLastFlush ==
  (run > 1 /\ pc \notin {"start", "aborted_startup", "killed"}) =>
    /\ expect.known => process_stack = expect.stack
    /\ \A k \in Rows : hist[k].picked => process_list.rows[k].process = 1
    /\ \A k \in 1..Len(process_list.rows) :
         process_list.rows[k].process = 1
           <=> \E j \in 1..Len(process_stack) : process_stack[j] = k
    /\ \A j1, j2 \in 1..Len(process_stack) :
         j1 < j2 => process_stack[j1] < process_stack[j2]

C5_Witness ==
  /\ run = 2
  /\ pc = "done"
  /\ expect.known
  /\ expect.stack = <<2>>
  /\ process_list.rows[1].status = "processed"
  /\ ~hist[1].picked
  /\ hist[2].picked

\* C6: a slide that opened and whose resolved segmentation level has more
\* than 1e8 pixels has status failed_seg and nothing but the open was executed
\* for it, with seg enabled or not; a slide whose level has 1e8 pixels or
\* fewer is not stopped by the guard.
C6_SizeGuard ==
  \A k \in Rows :
    /\ hist[k].area > SizeGuardArea =>
         /\ df[k].status = "failed_seg"
         /\ hist[k].outcome = "failed_seg"
         /\ hist[k].calls = {"open"}
    /\ (hist[k].area >= 1 /\ hist[k].area <= SizeGuardArea) =>
         hist[k].outcome # "failed_seg"

C6_Witness ==
  /\ cfg.seg
  /\ \E k \in Rows : hist[k].area > SizeGuardArea /\ df[k].status = "failed_seg"
  /\ \E k \in Rows : hist[k].area = SizeGuardArea /\ "segment" \in hist[k].calls

\* C7: within a run the status of a record changes only by: auto-skip hit to
\* already_exist, size guard to failed_seg, end of the loop body to processed
\* (the slide opened, passed the guard and every stage that ran returned); a
\* record whose open or segmentation failed, or that was not picked up, keeps
\* its pre-run status; the status is assigned at most once per run.
C7_StatusTransitions ==
  \A k \in Rows :
    /\ hist[k].status_writes <= 1
    /\ hist[k].outcome \in {"none", "open_failed", "seg_failed"}
         => df[k].status = hist[k].pre_status
    /\ df[k].status # hist[k].pre_status
         => /\ hist[k].outcome \in {"already_exist", "failed_seg", "processed"}
            /\ df[k].status = hist[k].outcome
            /\ hist[k].status_writes = 1
    /\ hist[k].outcome = "already_exist" => (cfg.auto_skip /\ hist[k].h5_at_pickup)
    /\ hist[k].outcome = "failed_seg" => hist[k].area > SizeGuardArea
    /\ hist[k].outcome = "processed"
         => /\ "open" \in hist[k].calls
            /\ hist[k].area >= 1 /\ hist[k].area <= SizeGuardArea
            /\ cfg.seg => ("segment" \in hist[k].calls /\ hist[k].times[1] >= 0)
            /\ cfg.save_mask => "mask" \in hist[k].calls
            /\ cfg.patch => ("patch" \in hist[k].calls /\ hist[k].times[2] >= 0)
            /\ "stitch" \in hist[k].calls => hist[k].times[3] >= 0

C7_Witness ==
  /\ pc = "done"
  /\ \E k \in Rows : hist[k].outcome = "seg_failed" /\ df[k].status = "tbp"
  /\ \E k \in Rows : hist[k].outcome = "processed" /\ df[k].status = "processed"

\* sum over the selected items of the elapsed value of stage s, an item that
\* did not reach the end of the loop body counting as "other"
SumOfStage(s, other) ==
  LET F[j \in 0..total] ==
        IF j = 0 THEN 0
        ELSE F[j - 1] + (IF hist[process_stack[j]].outcome = "processed"
                           THEN hist[process_stack[j]].times[s]
                           ELSE other)
  IN F[total]

\* C8 (as stated): the reported mean of each stage is the sum over every
\* selected item of its elapsed value, a skipped or failed item contributing
\* the sentinel -1, over the number of selected items.
C8_MeanCountsSentinelForSkipped ==
  pc = "done" =>
    /\ times.den = total
    /\ times.seg = SumOfStage(1, NoTime)
    /\ times.patch = SumOfStage(2, NoTime)
    /\ times.stitch = SumOfStage(3, NoTime)

\* C8 (amended): the reported mean of each stage is the sum over the selected
\* items that reached the end of the loop body of their elapsed value, -1 for
\* a stage that did not run for such an item, over the number of selected
\* items; an item that was skipped or failed earlier contributes nothing.
C8_MeanOverCompletedItems ==
  pc = "done" =>
    /\ times.den = total
    /\ times.seg = SumOfStage(1, 0)
    /\ times.patch = SumOfStage(2, 0)
    /\ times.stitch = SumOfStage(3, 0)
    /\ \A k \in Rows :
         hist[k].outcome = "processed" =>
           /\ hist[k].times[1] = NoTime <=> "segment" \notin hist[k].calls
           /\ hist[k].times[2] = NoTime <=> "patch" \notin hist[k].calls
           /\ hist[k].times[3] = NoTime <=> "stitch" \notin hist[k].calls

C8_Witness ==
  /\ pc = "done"
  /\ total = 2
  /\ \E k \in Rows : hist[k].outcome = "processed" /\ hist[k].times[1] >= 0
                     /\ hist[k].times[3] = NoTime
  /\ \E k \in Rows : hist[k].outcome \in {"already_exist", "open_failed", "seg_failed"}

\* C9: when TiffSlide raises for a slide and OpenSlide reports a value, the
\* slide is patched with the geometry derived from OpenSlide's value.
C9_FallbackSurvivesProviderFailure ==
  (pc = "loop" /\ i >= 1 /\ probe.tiffslide = Raises /\ probe.openslide \in MppValues)
    => LET g == hist[process_stack[i]].geometry
       IN /\ g[3] = probe.openslide
          /\ g[1] = Round(cfg.patch_size * cfg.patch_spacing, probe.openslide)

\* C10: with patch_spacing given, the patch size passed to patching is the
\* integer nearest to (the caller's patch_size * patch_spacing / native MPP of
\* this slide), ties to the even one, and the step size passed equals it,
\* whatever slides were patched before.
C10_GeometryFromBasePatchSize ==
  \A k \in Rows :
    /\ ("patch" \in hist[k].calls /\ cfg.patch_spacing # NoSpacing)
         => hist[k].geometry[3] \in MppValues
    /\ hist[k].geometry[3] # NoMpp =>
         LET ps == hist[k].geometry[1]
             p == cfg.patch_size * cfg.patch_spacing
             q == hist[k].geometry[3]
             d == IF ps * q >= p THEN ps * q - p ELSE p - ps * q
         IN /\ 2 * d <= q
            /\ 2 * d = q => ps % 2 = 0
            /\ hist[k].geometry[2] = ps

C10_Witness ==
  /\ hist # << >>
  /\ \E k1, k2 \in Rows :
       /\ k1 < k2
       /\ hist[k1].geometry[3] = 1024
       /\ hist[k2].geometry = <<512, 512, 25>>

\* rows this run picked up, opened and took through the legacy migration and
\* both level lookups of lines 201-256
Migrated(k) ==
  /\ legacy_support /\ ~cfg.use_default_params
  /\ "open" \in hist[k].calls
  /\ hist[k].area >= 1

\* the downsample pair line 210 reads: that of the level the record's stored
\* seg_level indexes
StoredScale(k) == PyIndex(hist[k].wsi.level_downsamples, process_list.rows[k].seg_level)

PreProcess(k) == IF process_list.given THEN process_list.rows[k].process ELSE 1

\* the rows whose iteration has started
Started ==
  {process_stack[j] : j \in 1..(IF pc \in InItem \/ pc \in {"aborted_resolve",
                                   "aborted_mask", "aborted_patch", "aborted_stitch"}
                                  THEN i + 1 ELSE i)}

\* C12: the process flag of a record is 1 until the record is picked up and 0
\* from then on, the pick-up preceding the skip check and every stage; a
\* record loaded with 0 keeps 0 and is never picked up; each selected record
\* is picked up once, in turn; when the run completes every selected record
\* has process = 0, in memory and in the file, whatever its outcome.
C12_ProcessFlagConsumedOnce ==
  /\ \A k \in Rows :
       /\ df[k].process = (IF hist[k].picked THEN 0 ELSE PreProcess(k))
       /\ hist[k].picked => PreProcess(k) = 1
       /\ hist[k].picked <=> k \in Started
       /\ (hist[k].calls # {} \/ hist[k].outcome # "none") => hist[k].picked
  /\ (Rows # {} /\ pc \notin {"start", "aborted_startup"}) =>
       /\ Len(process_stack) = Cardinality({process_stack[j] : j \in 1..total})
       /\ i <= total
  /\ pc = "done" =>
       \A k \in Rows : /\ df[k].process = 0
                       /\ disk.rows[k].process = 0
                       /\ PreProcess(k) = 1 => hist[k].picked

C12_Witness ==
  /\ pc = "done"
  /\ process_list.given
  /\ \E k \in Rows : PreProcess(k) = 0 /\ ~hist[k].picked
  /\ \E k \in Rows : PreProcess(k) = 1 /\ hist[k].outcome = "open_failed"
                     /\ df[k].process = 0

\* C13: a run that passed startup ends by writing the ledger once more and
\* reporting the means, for every number of selected records, zero included:
\* it is never found terminated by an exception after its loop, and once the
\* loop is over with nothing selected the final write is still to come or done.
C13_RunEndsNormally ==
  /\ pc # "aborted_averages"
  /\ (pc = "done" /\ total = 0) => (disk.exists /\ disk.complete /\ disk.rows = df)

\* the slide whose iteration has just ended asked the providers for its MPP
\* and each yielded absent (None, or for OpenSlide an exception)
AllAbsent(k) ==
  /\ "mpp" \in hist[k].calls
  /\ probe.tiffslide = NoMpp
  /\ probe.openslide \in {NoMpp, Raises}

\* C14 (as stated): when every provider yields absent for a slide, none of
\* segmentation, mask rendering, patching or stitching was executed for it,
\* its status is not processed, and the loop goes on.
C14_SkippedBeforeAnyStage ==
  (pc = "loop" /\ i >= 1 /\ AllAbsent(process_stack[i])) =>
    LET k == process_stack[i]
    IN /\ hist[k].calls \cap {"segment", "mask", "patch", "stitch"} = {}
       /\ df[k].status # "processed"

\* C14 (amended): when every provider yields absent for a slide, patching and
\* stitching are not executed for it, its status is left as it was before the
\* run and the loop goes on to the next slide; segmentation (when enabled) and
\* mask rendering have been executed for it before the lookup.
C14_SkippedBeforePatching ==
  (pc = "loop" /\ i >= 1 /\ AllAbsent(process_stack[i])) =>
    LET k == process_stack[i]
    IN /\ hist[k].outcome = "no_mpp"
       /\ hist[k].calls \cap {"patch", "stitch"} = {}
       /\ df[k].status = hist[k].pre_status
       /\ df[k].status # "processed"
       /\ hist[k].status_writes = 0
       /\ cfg.seg <=> "segment" \in hist[k].calls
       /\ cfg.save_mask => ("mask" \in hist[k].calls /\ fs.mask[df[k].slide_id])
       /\ hist[k].times = <<0, 0, 0>>

C14_Witness ==
  /\ pc = "done"
  /\ total = 2
  /\ hist[process_stack[1]].outcome = "no_mpp"
  /\ "segment" \in hist[process_stack[1]].calls
  /\ hist[process_stack[2]].outcome = "processed"

\* C15: under legacy migration the downsample factors that rescale the legacy
\* area are those of the level the slide is size-guarded and segmented at in
\* the same iteration (the auto-selected level), also when the stored
\* seg_level is the auto marker.
C15_RescaledAtSegmentationLevel ==
  \A k \in Rows :
    Migrated(k) =>
      /\ hist[k].used[1] = ResolveLevel(AutoLevel, hist[k].wsi)
      /\ df[k].a_t = AdjustedArea(df[k].a,
                       PyIndex(hist[k].wsi.level_downsamples, hist[k].used[1]))

\* C16 (as stated): with mask rendering enabled, every picked-up slide that
\* reached the segmentation step has its mask persisted when its iteration
\* ends, whether segmentation was disabled, returned, or failed.
C16_MaskAlwaysPersisted ==
  \A k \in Rows :
    (cfg.save_mask /\ hist[k].outcome \in {"processed", "no_mpp", "mpp_failed", "seg_failed"})
      => fs.mask[df[k].slide_id]

\* C16 (amended): with mask rendering enabled, the mask of a picked-up slide
\* is persisted whenever its iteration goes past the mask step, which it
\* reaches when segmentation is disabled or returned; a slide whose
\* segmentation was attempted and failed gets no mask rendered.
C16_MaskUnlessSegmentationFailed ==
  /\ \A k \in Rows :
       /\ (cfg.save_mask /\ hist[k].outcome \in {"processed", "no_mpp", "mpp_failed"})
            => ("mask" \in hist[k].calls /\ fs.mask[df[k].slide_id])
       /\ hist[k].outcome = "seg_failed"
            => ("mask" \notin hist[k].calls /\ ~fs.mask[df[k].slide_id])
  /\ (cfg.save_mask /\ pc \in {"patch", "stitch", "finish"}) => fs.mask[df[Idx].slide_id]

C16_Witness ==
  /\ pc = "done"
  /\ \E k \in Rows : hist[k].outcome = "seg_failed" /\ ~fs.mask[df[k].slide_id]
  /\ \E k \in Rows : hist[k].outcome = "processed" /\ fs.mask[df[k].slide_id]

UsedFor(requested, k) ==
  IF requested >= 0 THEN requested
  ELSE IF Len(hist[k].wsi.level_dim) = 1 THEN 0 ELSE hist[k].wsi.best_level

\* C18: in every ledger state, in memory and in the written file, a record
\* with status processed has seg_level >= 0 and vis_level >= 0; for a record
\* processed in this run they are the levels used for the slide: the
\* requested one, or for auto 0 on a single-level slide and otherwise the
\* best level for a 64x downsample; in default-mode and in copy-mode.
C18_ResolvedLevelsPersisted ==
  /\ \A k \in Rows :
       df[k].status = "processed" =>
         /\ df[k].seg_level >= 0 /\ df[k].vis_level >= 0
         /\ hist[k].outcome = "processed" =>
              /\ df[k].seg_level = hist[k].used[1]
              /\ df[k].vis_level = hist[k].used[2]
              /\ hist[k].used[1] = UsedFor(hist[k].requested[1], k)
              /\ hist[k].used[2] = UsedFor(hist[k].requested[2], k)
  /\ (disk.exists /\ disk.complete) =>
       \A k \in 1..Len(disk.rows) :
         disk.rows[k].status = "processed" =>
           (disk.rows[k].seg_level >= 0 /\ disk.rows[k].vis_level >= 0)

C18_Witness ==
  /\ pc = "done"
  /\ total = 2
  /\ \E k1, k2 \in Rows :
       /\ hist[k1].outcome = "processed" /\ hist[k2].outcome = "processed"
       /\ hist[k1].requested = <<AutoLevel, AutoLevel>>
       /\ Len(hist[k1].wsi.level_dim) = 1 /\ disk.rows[k1].seg_level = 0
       /\ hist[k2].requested = <<AutoLevel, AutoLevel>>
       /\ hist[k2].wsi = ProfilePyramid /\ disk.rows[k2].seg_level = 1
       /\ disk.rows[k2].vis_level = 1

\* C19: for every record the run did not select (process = 0 at load), every
\* column value in memory and in the written checkpoint equals the value
\* loaded, for legacy and non-legacy ledgers alike.
C19_UnselectedRowsUntouched ==
  (process_list.given /\ pc \notin {"start", "aborted_startup"}) =>
    \A k \in Rows :
      process_list.rows[k].process = 0 =>
        /\ df[k] = process_list.rows[k]
        /\ (disk.exists /\ disk.complete) => disk.rows[k] = process_list.rows[k]

\* C20: with seg, patch, stitch, save_mask and auto_skip enabled and no
\* failure, skip or missing coordinate file in either run, a run interrupted
\* at any point and re-run to completion with the same arguments leaves every
\* slide with its coordinate file, mask image and stitched image.
C20_RerunLosesNoStageOutput ==
  ( /\ run = 2 /\ pc = "done" /\ expect.clean
    /\ cfg.seg /\ cfg.patch /\ cfg.stitch /\ cfg.auto_skip /\ cfg.save_mask
    /\ \A k \in Rows :
         /\ hist[k].outcome \in {"processed", "already_exist"}
         /\ "patch" \in hist[k].calls => fs.h5[df[k].slide_id] )
  => \A id \in Slides : fs.h5[id] /\ fs.mask[id] /\ fs.stitch[id]

====
